---- MODULE Spec2Model ----
(***************************************************************************)
(* The student score dashboard of src/main.py: a script that is run from   *)
(* top to bottom on every user interaction.  It lists the worksheets of a  *)
(* remote spreadsheet, loads the selected one through a 300 second         *)
(* memoization cache, checks the identity columns, turns the score columns *)
(* into numbers, averages them and joins one student's scores with the     *)
(* class averages.                                                         *)
(*                                                                         *)
(* Text is modelled as a sequence of one-character strings, so that        *)
(* parsing a cell is computed and not assumed.  Column titles are atoms;   *)
(* the Korean titles of the source are written in Latin letters:           *)
(* beonho (number), ireum (name), seongbyeol (gender), danwon (unit),      *)
(* pyeonggyun (average), jeomsu (score).                                   *)
(***************************************************************************)
EXTENDS Integers, Sequences, FiniteSets, TLC

VARIABLES
    spreadsheet, \* the titles of the worksheets of the remote spreadsheet, in order
    names_cache, \* st.cache_data entries of get_worksheet_names
    data_cache,  \* st.cache_data entries of load_data
    status,      \* "idle", "running", "stopped" (st.stop), "done", "crashed"
    stage,       \* the last statement group of the script that was executed
    rerun,       \* whether st.rerun() of the refresh button started this run
    ns,          \* the script's namespace of this run: bound name -> value
    page,        \* the elements rendered by this run, in order
    calls,       \* the remote operations attempted by this run, in order
    fetched,     \* the rows get_all_values returned to this run's load_data, if any
    uncached     \* cache keys not computed again since the last manual refresh

vars == <<spreadsheet, names_cache, data_cache, status, stage, rerun, ns,
          page, calls, fetched, uncached, rerun>>

---------------------------------------------------------------------------
(* Bounds of the model. *)

\* the largest number of data rows of a generated worksheet
MaxRows == 2

---------------------------------------------------------------------------
(* Text and numbers. *)

Digits == {"0", "1", "2", "3", "4", "5", "6", "7", "8", "9"}

DigitVal(c) ==
    CASE c = "0" -> 0 [] c = "1" -> 1 [] c = "2" -> 2 [] c = "3" -> 3
      [] c = "4" -> 4 [] c = "5" -> 5 [] c = "6" -> 6 [] c = "7" -> 7
      [] c = "8" -> 8 [] c = "9" -> 9

\* Python's None, which is no text: a token that is not a character
None == <<"None">>

\* a lone surrogate: a character utf-8 cannot encode
Surrogate == "\\ud800"

\* a float is a fraction num/den in lowest terms; den = 0 is NaN
NaN == [num |-> 0, den |-> 0]

Float(v) == [num |-> v, den |-> 1]

isna(x) == x.den = 0

RECURSIVE Gcd(_, _)
Gcd(a, b) == IF b = 0 THEN a ELSE Gcd(b, a % b)

Ratio(s, n) ==
    LET g == Gcd(IF s < 0 THEN -s ELSE s, n)
    IN  [num |-> s \div g, den |-> n \div g]

RECURSIVE DecimalValue(_)
DecimalValue(s) ==
    IF s = <<>> THEN 0
    ELSE 10 * DecimalValue(SubSeq(s, 1, Len(s) - 1)) + DigitVal(s[Len(s)])

\* pd.to_numeric(..., errors="coerce") on one cell; the cells of the model are
\* unsigned decimal integers, empty text and text that is no number
to_numeric_cell(s) ==
    IF s # <<>> /\ s # None /\ \A i \in 1..Len(s) : s[i] \in Digits
    THEN Float(DecimalValue(s))
    ELSE NaN

\* str(x) of a cell: text stays, None becomes the text "None"
astype_str(c) == IF c = None THEN <<"N", "o", "n", "e">> ELSE c

\* .str.encode('utf-8', errors='ignore').str.decode('utf-8')
encode_decode(c) == SelectSeq(c, LAMBDA ch : ch # Surrogate)

---------------------------------------------------------------------------
(* Tables. *)

\* pd.DataFrame()
EmptyFrame == [columns |-> <<>>, rows |-> <<>>]

\* df.empty
empty(df) == Len(df.columns) = 0 \/ Len(df.rows) = 0

Range(s) == {s[i] : i \in 1..Len(s)}

MaxOf(S) == CHOOSE m \in S : \A x \in S : x <= m

\* the position of a column title; titles are distinct in every loaded table
ColIndex(df, col) == CHOOSE i \in 1..Len(df.columns) : df.columns[i] = col

\* df[col].tolist()
Column(df, col) == [r \in 1..Len(df.rows) |-> df.rows[r][ColIndex(df, col)]]

HasDuplicates(s) == \E i, j \in 1..Len(s) : i # j /\ s[i] = s[j]

\* pd.DataFrame(rows, columns=header): a short row is padded with None
DataFrame(rows, header) ==
    [columns |-> header,
     rows |-> [r \in 1..Len(rows) |->
                 [c \in 1..Len(header) |->
                    IF c <= Len(rows[r]) THEN rows[r][c] ELSE None]]]

\* pd.DataFrame(rows, columns=header) raises when the widest row and the header differ
DataFrameRaises(rows, header) ==
    /\ rows # <<>>
    /\ MaxOf({Len(rows[r]) : r \in 1..Len(rows)}) # Len(header)

\* df.dropna(how="all"): a row goes when every cell of it is None/NaN
dropna_all(df) ==
    [df EXCEPT !.rows =
        SelectSeq(df.rows, LAMBDA row : ~ \A c \in 1..Len(row) : row[c] = None)]

\* lines 60-62: every column of a freshly built table has dtype object
sanitize(df) ==
    [df EXCEPT !.rows =
        [r \in 1..Len(df.rows) |->
            [c \in 1..Len(df.rows[r]) |-> encode_decode(astype_str(df.rows[r][c]))]]]

\* the try block of load_data without the loop over the columns of lines 60-62
load_data_raises_unsanitized(data) ==
    \/ data = <<>>
    \/ DataFrameRaises(Tail(data), Head(data))

\* the try block of load_data raises: data[0] of no rows, a row wider than the
\* header, or df[col].dtype of a title that names two columns
load_data_raises(data) ==
    \/ data = <<>>
    \/ DataFrameRaises(Tail(data), Head(data))
    \/ HasDuplicates(Head(data))

\* the try block of load_data, given what get_all_values returned
load_data_frame(data) ==
    sanitize(dropna_all(DataFrame(Tail(data), Head(data))))

---------------------------------------------------------------------------
(* The pipeline of lines 106-148. *)

expected_columns == <<"beonho", "ireum", "seongbyeol">>

\* line 108
score_columns_of(df) == SelectSeq(df.columns, LAMBDA col : col \notin Range(expected_columns))

\* line 109 with any(...) for all(...)
has_expected_columns_any(df) == \E col \in Range(expected_columns) : col \in Range(df.columns)

\* line 109
has_expected_columns(df) == \A col \in Range(expected_columns) : col \in Range(df.columns)

\* lines 115-116: every score column is replaced by its numeric reading
to_numeric(df, score_columns) ==
    [df EXCEPT !.rows =
        [r \in 1..Len(df.rows) |->
            [c \in 1..Len(df.columns) |->
                IF df.columns[c] \in Range(score_columns)
                THEN to_numeric_cell(df.rows[r][c])
                ELSE df.rows[r][c]]]]

\* Series.mean() (skipna): the sum and the number of the values that are not NaN;
\* no such value gives NaN
RECURSIVE SumSkipNa(_)
SumSkipNa(xs) ==
    IF xs = <<>> THEN [sum |-> 0, count |-> 0]
    ELSE LET rest == SumSkipNa(Tail(xs))
         IN  IF isna(Head(xs)) THEN rest
             ELSE [sum |-> Head(xs).num + rest.sum, count |-> rest.count + 1]

\* a mean that divides by the number of rows
mean_over_rows(xs) ==
    LET t == SumSkipNa(xs)
    IN  IF t.count = 0 THEN NaN ELSE Ratio(t.sum, Len(xs))

mean(xs) ==
    LET t == SumSkipNa(xs)
    IN  IF t.count = 0 THEN NaN ELSE Ratio(t.sum, t.count)

\* lines 119-120 with the columns that have no value left out of the averages
overall_averages_dropna(df, score_columns) ==
    LET valued == SelectSeq(score_columns, LAMBDA col : ~isna(mean(Column(df, col))))
    IN  [i \in 1..Len(valued) |->
            [danwon |-> valued[i], pyeonggyun |-> mean(Column(df, valued[i]))]]

\* lines 119-120: one row (danwon, pyeonggyun jeomsu) per score column
overall_averages_of(df, score_columns) ==
    [i \in 1..Len(score_columns) |->
        [danwon |-> score_columns[i], pyeonggyun |-> mean(Column(df, score_columns[i]))]]

\* pd.notna of a name cell
notna(name) == name # None

\* line 124
student_names_of(df) == SelectSeq(Column(df, "ireum"), notna)

\* line 137: df[df["ireum"] == selected_student]
student_df_of(df, selected_student) ==
    [df EXCEPT !.rows =
        SelectSeq(df.rows, LAMBDA row : row[ColIndex(df, "ireum")] = selected_student)]

\* lines 141-145 with iloc[-1]
student_scores_of_last(student_df, score_columns) ==
    [i \in 1..Len(score_columns) |->
        [danwon |-> score_columns[i],
         jeomsu |-> student_df.rows[Len(student_df.rows)][ColIndex(student_df, score_columns[i])]]]

\* lines 141-145: the scores of student_df.iloc[0]
student_scores_of(student_df, score_columns) ==
    [i \in 1..Len(score_columns) |->
        [danwon |-> score_columns[i],
         jeomsu |-> student_df.rows[1][ColIndex(student_df, score_columns[i])]]]

\* pd.merge(left, right, on="danwon", how="left"): for every left row, in order,
\* one output row per right row of the same danwon, and one row with a missing
\* score when there is none
RECURSIVE merge_left(_, _)
merge_left(left, right) ==
    IF left = <<>> THEN <<>>
    ELSE LET l == Head(left)
             matches == SelectSeq(right, LAMBDA r : r.danwon = l.danwon)
             joined ==
                IF matches = <<>>
                THEN << [danwon |-> l.danwon, average |-> l.pyeonggyun, score |-> NaN] >>
                ELSE [k \in 1..Len(matches) |->
                        [danwon |-> l.danwon, average |-> l.pyeonggyun,
                         score |-> matches[k].jeomsu]]
         IN  joined \o merge_left(Tail(left), right)

\* lines 147-148
plot_df_of(overall_averages, student_scores) == merge_left(overall_averages, student_scores)

---------------------------------------------------------------------------
(* st.cache_data(ttl=300), lines 32 and 53: one cache per decorated function,  *)
(* an entry per argument tuple, returned while it is younger than ttl.         *)

ttl == 300

\* a key that leaves the arguments out
cache_key_of_function(args) == <<>>

\* the key of a call: the function's cache holds one entry per argument tuple
cache_key(args) == args

\* the entries a call with these arguments may return
cache_hit(cache, args) == {e \in cache : e.key = cache_key(args) /\ e.age < ttl}

\* a store that keeps no empty result
cache_store_unless_empty(cache, args, value) ==
    IF (IF args = <<>> THEN value = <<>> ELSE value = EmptyFrame)
    THEN cache
    ELSE {e \in cache : e.args # args}
            \cup {[key |-> args, args |-> args, value |-> value, age |-> 0]}

\* the cache after the value computed for these arguments is stored
cache_store(cache, args, value) ==
    {e \in cache : e.key # cache_key(args)}
        \cup {[key |-> cache_key(args), args |-> args, value |-> value, age |-> 0]}

\* a clear that evicts the expired entries only
cache_clear_expired(cache) == {e \in cache : e.age < ttl}

\* st.cache_data.clear(), line 92, on each function's cache
cache_clear(cache) == {}

\* the entries after d seconds; an age past ttl is kept as ttl
cache_aged(cache, d) ==
    {[e EXCEPT !.age = IF e.age + d > ttl THEN ttl ELSE e.age + d] : e \in cache}

---------------------------------------------------------------------------
(* Names. *)

\* the keys of the two caches: the listing, and a load per worksheet title
ListKey == <<"get_worksheet_names">>

LoadKey(title) == <<"load_data", title>>

AllKeys(titles) == {ListKey} \cup {LoadKey(titles[i]) : i \in 1..Len(titles)}

Bind(env, name, value) ==
    [n \in DOMAIN env \cup {name} |-> IF n = name THEN value ELSE env[n]]

Bound(name) == name \in DOMAIN ns

NoNames == [n \in {} |-> 0]

---------------------------------------------------------------------------
(* Worksheet contents. *)

Empty == <<>>

A == <<"A">>

B == <<"B">>

\* the example of the specification: one score is no number
SampleExample ==
    << expected_columns \o <<"danwon1">>,
       << <<"1">>, A, <<"M">>, <<"9", "0">> >>,
       << <<"2">>, B, <<"F">>, <<"x">> >> >>

\* a row left blank, and a name that is not valid utf-8
SampleBlankRow ==
    << expected_columns \o <<"danwon1">>,
       << Empty, Empty, Empty, Empty >>,
       << <<"1">>, <<"A", Surrogate>>, <<"M">>, <<"7", "5">> >> >>

\* a header and no data row
SampleHeaderOnly == << expected_columns \o <<"danwon1">> >>

\* a worksheet without the gender column
SampleNoGender ==
    << <<"beonho", "ireum", "danwon1">>,
       << <<"1">>, A, <<"9", "0">> >> >>

\* a title used for two score columns
SampleTwice ==
    << expected_columns \o <<"danwon1", "danwon1">>,
       << <<"1">>, A, <<"M">>, <<"9", "0">>, <<"7", "5">> >> >>

\* two students of one name
SampleNamesakes ==
    << expected_columns \o <<"danwon1">>,
       << <<"1">>, A, <<"M">>, <<"9", "0">> >>,
       << <<"2">>, A, <<"F">>, <<"7", "5">> >> >>

\* a worksheet without any row
SampleNoRows == <<>>

Samples ==
    {SampleExample, SampleBlankRow, SampleHeaderOnly, SampleNoGender, SampleTwice,
     SampleNamesakes, SampleNoRows}

\* the headers of the generated worksheets: no score column, one, two, a missing
\* gender, a missing name, no identity column at all, a title used twice, and a
\* header row without cells
Headers ==
    { expected_columns,
      expected_columns \o <<"danwon1">>,
      expected_columns \o <<"danwon2", "danwon3">>,
      <<"beonho", "ireum", "danwon3">>,
      <<"beonho", "seongbyeol", "danwon3">>,
      <<"danwon3">>,
      expected_columns \o <<"danwon3", "danwon3">>,
      <<>> }

\* the texts a generated cell takes, by the title of its column
Alphabet(title) ==
    CASE title = "beonho" -> {Empty, <<"1">>}
      [] title = "ireum" -> {Empty, A, B}
      [] title = "seongbyeol" -> {Empty, <<"M">>}
      [] title = "danwon1" -> {Empty, <<"x">>, <<"9", "0">>, <<"7", "5">>}
      [] title = "danwon2" -> {<<"x">>, <<"8", "0">>}
      [] title = "danwon3" -> {Empty, <<"6", "0">>}

\* the rows of cells drawn from the alphabets of the given titles
RECURSIVE Cells(_)
Cells(titles) ==
    IF titles = <<>> THEN {<<>>}
    ELSE {<<c>> \o rest : c \in Alphabet(Head(titles)), rest \in Cells(Tail(titles))}

\* the generated rows under a header; to keep their number down, the number and
\* the gender of a row are both filled in or both left blank
RowsFor(header) ==
    {row \in Cells(header) :
        \A c, d \in 1..Len(header) :
            header[c] = "beonho" /\ header[d] = "seongbyeol"
                => ((row[c] = Empty) <=> (row[d] = Empty))}

RECURSIVE Tables(_, _)
Tables(rows, n) ==
    IF n = 0 THEN {<<>>}
    ELSE LET shorter == Tables(rows, n - 1)
         IN  shorter \cup {Append(t, r) : t \in {s \in shorter : Len(s) = n - 1}, r \in rows}

\* what get_all_values may return: nothing at all, or a header and up to n rows;
\* the service leaves out the empty rows at the end of a worksheet
Worksheets(n) ==
    {<<>>} \cup
    UNION {{<<header>> \o rows :
                rows \in {t \in Tables(RowsFor(header), IF header = <<>> THEN 0 ELSE n) :
                            t = <<>> \/ \E c \in 1..Len(header) : t[Len(t)][c] # Empty}}
              : header \in Headers}

\* the worksheet titled Scores takes every generated content, any other the samples
ContentsOf(title) == IF title = "Scores" THEN Worksheets(MaxRows) ELSE Samples

---------------------------------------------------------------------------
(* One run of the script, a statement group per action. *)

Stop(elements) == status' = "stopped" /\ page' = page \o elements

Continue(elements) == status' = "running" /\ page' = page \o elements

At(s) == status = "running" /\ stage = s

\* lines 14-29: the credentials are read and the spreadsheet is opened
Connect ==
    /\ At("start")
    /\ stage' = "connect"
    /\ \E accepted \in BOOLEAN :
        IF accepted
        THEN Continue(<<>>) /\ ns' = Bind(ns, "spreadsheet", "opened")
        ELSE Stop(<<"error:connect", "info:connect">>) /\ ns' = ns
    /\ UNCHANGED <<spreadsheet, names_cache, data_cache, calls, fetched, uncached, rerun>>

\* lines 32-45: get_worksheet_names() through its cache, and the halt on no names
GetWorksheetNames ==
    /\ At("connect")
    /\ stage' = "get_worksheet_names"
    /\ LET hit == cache_hit(names_cache, <<>>)
           called == hit = {}
       IN  \E answered \in (IF called THEN BOOLEAN ELSE {TRUE}) :
           LET worksheets == IF ~called THEN (CHOOSE e \in hit : TRUE).value
                             ELSE IF answered THEN spreadsheet ELSE <<>>
               shown == IF called /\ ~answered THEN <<"error:list">> ELSE <<>>
           IN  /\ names_cache' = IF called THEN cache_store(names_cache, <<>>, worksheets)
                                 ELSE names_cache
               /\ calls' = IF called THEN Append(calls, ListKey) ELSE calls
               /\ ns' = Bind(Bind(ns, "worksheets", worksheets),
                             "WORKSHEET_NAMES", worksheets)
               /\ IF worksheets = <<>>
                  THEN Stop(shown \o <<"warning:no_worksheets">>)
                  ELSE Continue(shown)
    /\ uncached' = uncached \ {ListKey}
    /\ UNCHANGED <<spreadsheet, data_cache, fetched, rerun>>

\* lines 48-51: the worksheet selector
SelectWorksheet ==
    /\ At("get_worksheet_names")
    /\ stage' = "selectbox"
    /\ \E i \in 1..Len(ns.WORKSHEET_NAMES) :
        ns' = Bind(ns, "selected_worksheet_name", ns.WORKSHEET_NAMES[i])
    /\ UNCHANGED <<spreadsheet, names_cache, data_cache, status, page, calls,
                   fetched, uncached, rerun>>

\* lines 87-98: the refresh button; a click clears every cache and reruns the script
RefreshButton ==
    /\ At("selectbox")
    /\ \E clicked \in BOOLEAN :
        IF clicked
        THEN /\ names_cache' = cache_clear(names_cache)
             /\ data_cache' = cache_clear(data_cache)
             /\ uncached' = AllKeys(spreadsheet)
             /\ stage' = "start"
             /\ rerun' = TRUE
             /\ ns' = NoNames
             /\ page' = <<>>
             /\ calls' = <<>>
             /\ fetched' = <<>>
             /\ UNCHANGED status
        ELSE /\ stage' = "refresh_button"
             /\ UNCHANGED <<names_cache, data_cache, uncached, ns, page, calls, fetched,
                            status, rerun>>
    /\ UNCHANGED spreadsheet

\* lines 53-66 and 100-104: load_data(selected_worksheet_name) through its cache,
\* and the halt on an empty table; a call that is made gets no answer from the
\* service (<<>>) or the rows of the worksheet as they are at that moment
LoadData ==
    /\ At("refresh_button")
    /\ stage' = "load_data"
    /\ LET worksheet_name == ns.selected_worksheet_name
           hit == cache_hit(data_cache, <<worksheet_name>>)
           called == hit = {}
           answers == {<<>>} \cup {<<d>> : d \in ContentsOf(worksheet_name)}
       IN  \E answer \in (IF called THEN answers ELSE {<<>>}) :
           LET raised == answer = <<>> \/ load_data_raises(answer[1])
               df == IF ~called THEN (CHOOSE e \in hit : TRUE).value
                     ELSE IF raised THEN EmptyFrame ELSE load_data_frame(answer[1])
               shown == IF called /\ raised THEN <<"error:load">> ELSE <<>>
           IN  /\ data_cache' = IF called
                                THEN cache_store(data_cache, <<worksheet_name>>, df)
                                ELSE data_cache
               /\ calls' = IF called THEN Append(calls, LoadKey(worksheet_name)) ELSE calls
               /\ fetched' = answer
               /\ ns' = Bind(ns, "df", df)
               /\ uncached' = uncached \ {LoadKey(worksheet_name)}
               /\ IF empty(df)
                  THEN Stop(shown \o <<"info:no_data">>)
                  ELSE Continue(shown)
    /\ UNCHANGED <<spreadsheet, names_cache, rerun>>

\* lines 106-112: the score columns, and the halt on a missing identity column
CheckColumns ==
    /\ At("load_data")
    /\ stage' = "expected_columns"
    /\ ns' = Bind(ns, "score_columns", score_columns_of(ns.df))
    /\ IF has_expected_columns(ns.df)
       THEN Continue(<<>>)
       ELSE Stop(<<"error:columns", "dataframe:raw">>)
    /\ UNCHANGED <<spreadsheet, names_cache, data_cache, calls, fetched, uncached, rerun>>

\* lines 114-116: pd.to_numeric of a title that names two columns raises; df is
\* this run's copy of the cached table, which the cache keeps as it was loaded
ToNumeric ==
    /\ At("expected_columns")
    /\ stage' = "to_numeric"
    /\ IF HasDuplicates(ns.score_columns)
       THEN status' = "crashed" /\ ns' = ns
       ELSE status' = "running" /\ ns' = Bind(ns, "df", to_numeric(ns.df, ns.score_columns))
    /\ UNCHANGED <<spreadsheet, names_cache, data_cache, page, calls, fetched,
                   uncached, rerun>>

\* lines 118-120
OverallAverages ==
    /\ At("to_numeric")
    /\ stage' = "overall_averages"
    /\ ns' = Bind(ns, "overall_averages", overall_averages_of(ns.df, ns.score_columns))
    /\ UNCHANGED <<spreadsheet, names_cache, data_cache, status, page, calls,
                   fetched, uncached, rerun>>

\* lines 122-130: the names offered by the student selector and the name chosen;
\* df["ireum"].tolist() raises unless exactly one column has that title
StudentNames ==
    /\ At("overall_averages")
    /\ stage' = "student_names"
    /\ IF Cardinality({c \in 1..Len(ns.df.columns) : ns.df.columns[c] = "ireum"}) # 1
       THEN status' = "crashed" /\ ns' = ns /\ page' = page
       ELSE LET student_names == student_names_of(ns.df)
            IN  IF student_names = <<>>
                THEN /\ Stop(<<"warning:no_names">>)
                     /\ ns' = Bind(ns, "student_names", student_names)
                ELSE /\ Continue(<<>>)
                     /\ \E i \in 1..Len(student_names) :
                         ns' = Bind(Bind(ns, "student_names", student_names),
                                    "selected_student", student_names[i])
    /\ UNCHANGED <<spreadsheet, names_cache, data_cache, calls, fetched, uncached, rerun>>

\* lines 132-174: the student's rows, the comparison table and the chart, or the
\* hint when the chosen name is the empty text; iloc[0] of no row raises, and so
\* does the column selection of line 139 on a missing column
StudentView ==
    /\ At("student_names")
    /\ stage' = "student_view"
    /\ LET selected_student == ns.selected_student
           student_df == student_df_of(ns.df, selected_student)
           student_scores == student_scores_of(student_df, ns.score_columns)
           plot_df == plot_df_of(ns.overall_averages, student_scores)
       IN  IF selected_student = <<>>
           THEN /\ status' = "done"
                /\ page' = Append(page, "info:select_student")
                /\ ns' = ns
           ELSE IF ~has_expected_columns(ns.df) \/ student_df.rows = <<>>
           THEN status' = "crashed" /\ page' = Append(page, "header") /\ ns' = ns
           ELSE /\ status' = "done"
                /\ page' = page \o <<"header", "dataframe:student", "chart", "dataframe:plot">>
                /\ ns' = Bind(Bind(Bind(ns, "student_df", student_df),
                                   "student_scores", student_scores), "plot_df", plot_df)
    /\ UNCHANGED <<spreadsheet, names_cache, data_cache, calls, fetched, uncached, rerun>>

---------------------------------------------------------------------------
(* The user and the world between and during runs. *)

\* any interaction after a run has ended runs the script again from the top
StartRun ==
    /\ status \in {"stopped", "done", "crashed"}
    /\ status' = "running"
    /\ stage' = "start"
    /\ rerun' = FALSE
    /\ ns' = NoNames
    /\ page' = <<>>
    /\ calls' = <<>>
    /\ fetched' = <<>>
    /\ UNCHANGED <<spreadsheet, names_cache, data_cache, uncached>>

\* time passes between runs: just under the expiry, or the expiry itself
TickSteps == {ttl - 1, ttl}

Tick ==
    /\ status # "running"
    /\ \E d \in TickSteps :
        /\ names_cache' = cache_aged(names_cache, d)
        /\ data_cache' = cache_aged(data_cache, d)
    /\ UNCHANGED <<spreadsheet, status, stage, ns, page, calls, fetched, uncached, rerun>>

---------------------------------------------------------------------------
(* Specifications. *)

Fresh ==
    /\ names_cache = {}
    /\ data_cache = {}
    /\ status = "running"
    /\ stage = "start"
    /\ rerun = FALSE
    /\ ns = NoNames
    /\ page = <<>>
    /\ calls = <<>>
    /\ fetched = <<>>
    /\ uncached = AllKeys(spreadsheet)

\* a session on a spreadsheet of two worksheets
Init ==
    /\ spreadsheet = <<"Term1", "Term2">>
    /\ Fresh

\* a session on a spreadsheet of one worksheet, of generated content
InitData ==
    /\ spreadsheet = <<"Scores">>
    /\ Fresh

Run ==
    \/ Connect
    \/ GetWorksheetNames
    \/ SelectWorksheet
    \/ RefreshButton
    \/ LoadData
    \/ CheckColumns
    \/ ToNumeric
    \/ OverallAverages
    \/ StudentNames
    \/ StudentView

Next ==
    \/ Run
    \/ StartRun
    \/ Tick

\* every session: runs, reruns and the passing of time, the worksheets changing
\* between the samples
Spec == Init /\ [][Next]_vars

\* the first run of a session, and its reruns by the refresh button, on every
\* generated worksheet
SpecData == InitData /\ [][Run]_vars

---------------------------------------------------------------------------
(* The claims.  What a claim says is written here from the claim, without   *)
(* the operators of the pipeline above.                                     *)

IdentityColumns == {"beonho", "ireum", "seongbyeol"}

AfterCheck == {"expected_columns", "to_numeric", "overall_averages", "student_names",
               "student_view"}

\* the titles of the score columns of a table
ScoreTitles(df) == {col \in Range(df.columns) : col \notin IdentityColumns}

LacksIdentity(df) == \E col \in IdentityColumns : col \notin Range(df.columns)

\* the table the cache holds for the selected worksheet is the one in df
DfAsLoaded ==
    \E e \in data_cache : e.args = <<ns.selected_worksheet_name>> /\ e.value = ns.df

LastTwo(s) == IF Len(s) < 2 THEN <<>> ELSE SubSeq(s, Len(s) - 1, Len(s))

\* C1: a loaded, non-empty table that lacks an identity column halts the run at
\* the column check with the error and the raw table shown, and in that run the
\* scores are not coerced and the averages, the student selector and the
\* comparison table are never computed.
C1_MissingIdentityHalts ==
    (/\ Bound("df")
     /\ stage \in AfterCheck
     /\ LacksIdentity(ns.df))
        => /\ status = "stopped"
           /\ stage = "expected_columns"
           /\ LastTwo(page) = <<"error:columns", "dataframe:raw">>
           /\ ~Bound("overall_averages")
           /\ ~Bound("student_names")
           /\ ~Bound("selected_student")
           /\ ~Bound("plot_df")
           /\ DfAsLoaded

\* C1 happens: a table of MaxRows rows without the gender column has halted the run
C1_Witness ==
    /\ Bound("df")
    /\ status = "stopped"
    /\ stage = "expected_columns"
    /\ Len(ns.df.rows) = MaxRows
    /\ Range(ns.df.columns) \cap IdentityColumns = {"beonho", "ireum"}

\* C2: the comparison table has exactly one row for each score column of the
\* score table and no other row, whatever is missing.
C2_OneRowPerScoreColumn ==
    Bound("plot_df") =>
        /\ \A col \in ScoreTitles(ns.df) :
            Cardinality({i \in 1..Len(ns.plot_df) : ns.plot_df[i].danwon = col}) = 1
        /\ \A i \in 1..Len(ns.plot_df) : ns.plot_df[i].danwon \in ScoreTitles(ns.df)

\* C2 happens: a comparison table of two rows, one without an average and one
\* without a score of the student
C2_Witness ==
    /\ Bound("plot_df")
    /\ Len(ns.plot_df) = 2
    /\ \E i \in 1..2 : ns.plot_df[i].average = NaN
    /\ \E i \in 1..2 : ns.plot_df[i].score = NaN /\ ns.plot_df[i].average # NaN

\* the step of a manual refresh
IsRefresh == stage = "selectbox" /\ stage' = "start"

\* the listing is requested in this step
IsListing == stage = "connect" /\ stage' = "get_worksheet_names"

\* a worksheet is requested from the data loader in this step
IsLoad == stage = "refresh_button" /\ stage' = "load_data"

\* the entries computed for these arguments less than 300 seconds ago
Young(cache, args) == {e \in cache : e.args = args /\ e.age < 300}

\* C3: a manual refresh empties both caches and starts the script again, and the
\* first request of every key after a refresh (the listing, a worksheet title)
\* contacts the remote service.
C3_RefreshClearsAll ==
    [][/\ IsRefresh =>
            /\ names_cache' = {}
            /\ data_cache' = {}
            /\ uncached' = AllKeys(spreadsheet)
            /\ status' = "running"
            /\ rerun'
            /\ page' = <<>>
       /\ \A k \in uncached \ uncached' : calls' = Append(calls, k)]_vars

\* C3 happens: the run started by a refresh has contacted the service for the
\* listing and for the second worksheet
C3_Witness ==
    /\ rerun
    /\ stage = "load_data"
    /\ calls = <<ListKey, LoadKey("Term2")>>
    /\ uncached = {LoadKey("Term1")}

\* C4: a request whose key has an entry younger than 300 seconds is answered with
\* that entry's value, contacts nothing and leaves the cache alone; any other
\* request contacts the remote service exactly once and stores what it returns
\* under its own arguments; no two entries are held for the same arguments.
C4_Memoization ==
    [][/\ IsListing =>
            IF Young(names_cache, <<>>) # {}
            THEN /\ calls' = calls
                 /\ names_cache' = names_cache
                 /\ \E e \in Young(names_cache, <<>>) : ns'.worksheets = e.value
            ELSE /\ calls' = Append(calls, ListKey)
                 /\ \E e \in names_cache' :
                        e.args = <<>> /\ e.age = 0 /\ e.value = ns'.worksheets
       /\ IsLoad =>
            LET title == ns.selected_worksheet_name
            IN  IF Young(data_cache, <<title>>) # {}
                THEN /\ calls' = calls
                     /\ data_cache' = data_cache
                     /\ \E e \in Young(data_cache, <<title>>) : ns'.df = e.value
                ELSE /\ calls' = Append(calls, LoadKey(title))
                     /\ \E e \in data_cache' :
                            e.args = <<title>> /\ e.age = 0 /\ e.value = ns'.df
       /\ \A e, f \in names_cache' \cup data_cache' : e.args = f.args => e = f]_vars

\* C4 happens: a worksheet was served from an entry 299 seconds old while the
\* cache held a different table for the other worksheet
C4_Witness ==
    /\ stage = "load_data"
    /\ calls = <<>>
    /\ ns.selected_worksheet_name = "Term1"
    /\ \E e, f \in data_cache :
        /\ e.args = <<"Term1">> /\ e.age = 299 /\ e.value = ns.df
        /\ f.args = <<"Term2">> /\ f.age < 300 /\ f.value # e.value /\ ~empty(f.value)

\* the value a failed retrieval is replaced by
IsEmptyResult(e) == IF e.args = <<>> THEN e.value = <<>> ELSE e.value = EmptyFrame

\* C9: a retrieval that fails stores its empty result, and a request that finds
\* an empty result younger than 300 seconds halts the run with it and contacts
\* nothing.
C9_FailureMemoized ==
    [][/\ (IsListing /\ calls' # calls /\ ns'.worksheets = <<>>) =>
            \E e \in names_cache' : e.args = <<>> /\ e.age = 0 /\ e.value = <<>>
       /\ (IsLoad /\ calls' # calls /\ ns'.df = EmptyFrame) =>
            \E e \in data_cache' :
                e.args = <<ns.selected_worksheet_name>> /\ e.age = 0 /\ e.value = EmptyFrame
       /\ (IsListing /\ \E e \in Young(names_cache, <<>>) : IsEmptyResult(e)) =>
            calls' = calls /\ status' = "stopped" /\ ns'.WORKSHEET_NAMES = <<>>
       /\ (IsLoad /\ \E e \in Young(data_cache, <<ns.selected_worksheet_name>>) :
                        IsEmptyResult(e)) =>
            calls' = calls /\ status' = "stopped" /\ ns'.df = EmptyFrame]_vars

\* C9 happens: a run halted on the empty table of a failure 299 seconds old
\* without a remote load
C9_Witness ==
    /\ stage = "load_data"
    /\ status = "stopped"
    /\ calls = <<>>
    /\ fetched = <<>>
    /\ ns.df = EmptyFrame
    /\ page = <<"info:no_data">>
    /\ \E e \in data_cache : e.args = <<ns.selected_worksheet_name>> /\ e.age = 299

MessageElements ==
    {"error:connect", "info:connect", "error:list", "warning:no_worksheets", "error:load",
     "info:no_data", "error:columns", "warning:no_names", "info:select_student"}

Dashboard == <<"header", "dataframe:student", "chart", "dataframe:plot">>

TitleAt(col) == CHOOSE c \in 1..Len(ns.df.columns) : ns.df.columns[c] = col

\* the rows of this run's table whose cell of a column is a number
Valued(col) == {r \in 1..Len(ns.df.rows) : ns.df.rows[r][TitleAt(col)].den # 0}

RECURSIVE Total(_, _)
Total(col, R) ==
    IF R = {} THEN 0
    ELSE LET r == CHOOSE x \in R : TRUE
         IN  ns.df.rows[r][TitleAt(col)].num + Total(col, R \ {r})

\* C6: the class average of every score column is the sum of its values that
\* are not missing over their number, taken over the rows as a set, and it is
\* missing exactly when no row has a value.
C6_MeanOfNonMissing ==
    Bound("overall_averages") =>
        /\ {ns.overall_averages[i].danwon : i \in 1..Len(ns.overall_averages)}
                = ScoreTitles(ns.df)
        /\ \A i \in 1..Len(ns.overall_averages) :
            LET col == ns.overall_averages[i].danwon
                avg == ns.overall_averages[i].pyeonggyun
            IN  IF Valued(col) = {}
                THEN avg = NaN
                ELSE /\ avg.den > 0
                     /\ avg.num * Cardinality(Valued(col)) = Total(col, Valued(col)) * avg.den

\* C6 happens: an average that is no whole number, an average over fewer rows
\* than the table has, or no average at all
C6_Witness ==
    /\ Bound("overall_averages")
    /\ Len(ns.overall_averages) = 2
    /\ ns.overall_averages[1].pyeonggyun = [num |-> 80, den |-> 1]
    /\ Cardinality(Valued(ns.overall_averages[1].danwon)) = 1
    /\ ns.overall_averages[2].pyeonggyun = NaN
    /\ Len(ns.df.rows) = 2

\* the raw text of a cell of the table as it was loaded
LoadedCell(r, col) ==
    LET e == CHOOSE x \in data_cache : x.args = <<ns.selected_worksheet_name>>
    IN  e.value.rows[r][TitleAt(col)]

Unparseable(text) == text = <<>> \/ \E k \in 1..Len(text) : text[k] \notin Digits

\* the rows of the selected student, in sheet order
RowsNamed(name) == {r \in 1..Len(ns.df.rows) : ns.df.rows[r][TitleAt("ireum")] = name}

\* C10: when the comparison table is built, some row carries the selected name,
\* and the score of every score column is the normalized value of the first such
\* row, missing exactly when the cell of that row was no number.
C10_FirstRowOfName ==
    Bound("plot_df") =>
        /\ RowsNamed(ns.selected_student) # {}
        /\ LET first == CHOOSE r \in RowsNamed(ns.selected_student) :
                            \A q \in RowsNamed(ns.selected_student) : r <= q
           IN  \A col \in ScoreTitles(ns.df) :
                \E i \in 1..Len(ns.plot_df) :
                    /\ ns.plot_df[i].danwon = col
                    /\ ns.plot_df[i].score = ns.df.rows[first][TitleAt(col)]
                    /\ (ns.plot_df[i].score = NaN) <=> Unparseable(LoadedCell(first, col))

\* C10 happens: two rows carry the selected name and differ in a score
C10_Witness ==
    /\ Bound("plot_df")
    /\ Cardinality(RowsNamed(ns.selected_student)) = 2
    /\ \E col \in ScoreTitles(ns.df) :
        /\ ns.df.rows[1][TitleAt(col)] # ns.df.rows[2][TitleAt(col)]
        /\ ns.df.rows[1][TitleAt(col)] = NaN

AllEmpty(row) == \A c \in 1..Len(row) : row[c] = <<>>

\* C5: the table the data loader returns holds the data rows of the worksheet
\* that are not entirely empty, in sheet order, and no other row.  The code keeps
\* the rows of empty text: dropna only drops rows of None/NaN.
C5_EmptyRowsDropped ==
    (/\ stage = "load_data"
     /\ fetched # <<>>
     /\ "error:load" \notin Range(page))
        => ns.df.rows = SelectSeq(Tail(fetched[1]), LAMBDA row : ~AllEmpty(row))

\* C8: no empty name is offered by the student selector, and a table without
\* any name halts the run with the warning.  The code offers the empty text,
\* which pd.notna does not reject.
C8_NoMissingNames ==
    /\ Bound("student_names") => \A i \in 1..Len(ns.student_names) : ns.student_names[i] # <<>>
    /\ (/\ stage \in {"student_names", "student_view"}
        /\ status # "crashed"
        /\ RowsNamed(<<>>) = 1..Len(ns.df.rows))
            => status = "stopped" /\ LastTwo(<<"">> \o page) = <<"", "warning:no_names">>

====
